---- MODULE Spec2Model ----
(***************************************************************************)
(* gitdiff2pdf.py: the unified-diff parser (parse_unified_diff and its     *)
(* helpers) and the PDF pagination engine (class Renderer).                *)
(*                                                                         *)
(* Strings are TLA+ strings; a character is a string of length one.  The   *)
(* character "~" stands for the code points of _INVIS_GLOBAL, which cannot *)
(* be written in a module.  None is "" for the optional strings (the code  *)
(* only tests them for truth) and -1 for the optional line numbers.        *)
(* Lengths are in tenths of a point, so that 9.5, 2.2 and 11.7 are the     *)
(* integers 95, 22 and 117; the arithmetic is exact.                       *)
(***************************************************************************)
EXTENDS Integers, Sequences, FiniteSets, TLC

VARIABLES
    \* ---- parse_unified_diff ----
    tabsize,        \* the tabsize argument, as the decimal numeral argparse reads
    consumed,       \* the lines of norm_lines(text) the loop has taken so far
    files,          \* files: List[DiffFile]
    current,        \* current: Optional[DiffFile], as a sequence of length 0 or 1
    current_hunk,   \* current_hunk: 0 for None, else the index in current.hunks
    saw_any_hunk,
    rename_from,
    rename_to,
    ppc,            \* "scan" in the loop, "done" after return, "raised" after an exception
    result,         \* the returned list
    \* ---- Renderer ----
    view,           \* args.view
    hide_context,   \* args.hide_context
    landscape,      \* args.landscape
    page,           \* number of the current page, 0 while self.page is None
    y_base,         \* self.y_base
    queue,          \* number of files main has still to render
    cur,            \* the DiffFile being rendered
    rpc,            \* position in render_file_unified / render_file_sbs
    hi,             \* index of the hunk of the for loop
    li,             \* index of the next line of h.lines
    drawn,          \* what the last step drew: a badge, a header, or a block of rows
    badge_page,     \* page on which the badge of cur was drawn
    header_page,    \* page on which the header of the current hunk was drawn
    after_header,   \* number of row blocks drawn since that header
    \* ---- a function of the program applied on its own ----
    fn,             \* the function applied, "idle" before
    arg,            \* its arguments
    out             \* what it returned

pvars == <<tabsize, consumed, files, current, current_hunk, saw_any_hunk,
           rename_from, rename_to, ppc, result>>
rvars == <<view, hide_context, landscape, page, y_base, queue, cur, rpc, hi, li, drawn,
           badge_page, header_page, after_header>>
fvars == <<fn, arg, out>>
vars == <<pvars, rvars, fvars>>

None == -1

(***************************************************************************)
(* Bounds of the model.                                                    *)
(***************************************************************************)
MaxInput == 4       \* lines of one input text
MaxFiles == 3       \* files main renders in one run
MaxText == 5        \* characters of a text given to wrap_text
MaxLines == 5       \* lines of a hunk given to the side-by-side scan
MaxArgs == 3        \* input paths on the command line

(***************************************************************************)
(* str methods                                                             *)
(***************************************************************************)
CharAt(s, i) == SubSeq(s, i, i)

From(s, i) == IF i > Len(s) THEN "" ELSE SubSeq(s, i, Len(s))

startswith(s, p) == Len(s) >= Len(p) /\ SubSeq(s, 1, Len(p)) = p

Whitespace == {" ", "\t"}

Digits == {"0", "1", "2", "3", "4", "5", "6", "7", "8", "9"}

\* first index >= i of s whose character is not in set, Len(s) + 1 if none
RECURSIVE SkipSet(_, _, _)
SkipSet(s, i, set) ==
    IF i <= Len(s) /\ CharAt(s, i) \in set THEN SkipSet(s, i + 1, set) ELSE i

\* last index <= i of s whose character is not in set, 0 if none
RECURSIVE SkipSetBack(_, _, _)
SkipSetBack(s, i, set) ==
    IF i >= 1 /\ CharAt(s, i) \in set THEN SkipSetBack(s, i - 1, set) ELSE i

strip(s) ==
    LET a == SkipSet(s, 1, Whitespace)
        b == SkipSetBack(s, Len(s), Whitespace)
    IN  IF a > b THEN "" ELSE SubSeq(s, a, b)

\* s.split(): the maximal runs of non-whitespace
RECURSIVE split(_)
split(s) ==
    LET a == SkipSet(s, 1, Whitespace)
        b == SkipSet(s, a, {CharAt(s, k) : k \in 1..Len(s)} \ Whitespace)
    IN  IF a > Len(s) THEN <<>>
        ELSE <<SubSeq(s, a, b - 1)>> \o split(From(s, b))

DigitVal(c) ==
    CASE c = "0" -> 0 [] c = "1" -> 1 [] c = "2" -> 2 [] c = "3" -> 3
      [] c = "4" -> 4 [] c = "5" -> 5 [] c = "6" -> 6 [] c = "7" -> 7
      [] c = "8" -> 8 [] c = "9" -> 9

DigitChar(d) == CharAt("0123456789", d + 1)

\* int(s) of a non-empty digit string
RECURSIVE int(_)
int(s) ==
    IF Len(s) = 0 THEN 0
    ELSE 10 * int(SubSeq(s, 1, Len(s) - 1)) + DigitVal(CharAt(s, Len(s)))

\* "{}".format(n) of a natural number
RECURSIVE str(_)
str(n) == IF n < 10 THEN DigitChar(n) ELSE str(n \div 10) \o DigitChar(n % 10)

RECURSIVE Spaces(_)
Spaces(n) == IF n <= 0 THEN "" ELSE " " \o Spaces(n - 1)

\* a <= b for digit strings of the same length
RECURSIVE NumeralLeq(_, _)
NumeralLeq(a, b) ==
    IF Len(a) = 0 THEN TRUE
    ELSE IF CharAt(a, 1) # CharAt(b, 1) THEN DigitVal(CharAt(a, 1)) < DigitVal(CharAt(b, 1))
    ELSE NumeralLeq(From(a, 2), From(b, 2))

\* str.expandtabs takes tabsize as a C int: a Python int above 2^31 - 1 raises
\* OverflowError, whatever the string (ts is a numeral without sign or leading zeros)
expandtabs_raises(ts) ==
    Len(ts) > Len("2147483647") \/ (Len(ts) = Len("2147483647") /\ ~NumeralLeq(ts, "2147483647"))

\* s.expandtabs(ts), from column j
RECURSIVE expandtabs_from(_, _, _)
expandtabs_from(s, ts, j) ==
    IF Len(s) = 0 THEN ""
    ELSE LET c == CharAt(s, 1)
             incr == IF ts > 0 THEN ts - (j % ts) ELSE 0
         IN  IF c = "\t"
             THEN Spaces(incr) \o expandtabs_from(From(s, 2), ts, j + incr)
             ELSE c \o expandtabs_from(From(s, 2), ts, j + 1)

expandtabs(s, ts) == expandtabs_from(s, ts, 0)

(***************************************************************************)
(* Utilities                                                               *)
(***************************************************************************)
Invisible == {"~"}

RECURSIVE strip_invisibles(_)
strip_invisibles(s) ==
    IF Len(s) = 0 THEN ""
    ELSE (IF CharAt(s, 1) \in Invisible THEN "" ELSE CharAt(s, 1))
         \o strip_invisibles(From(s, 2))

PathSafe ==
    {CharAt("abcdefghijklmnopqrstuvwxyzABCDEFGHIJKLMNOPQRSTUVWXYZ0123456789._- /\\", k) :
        k \in 1..68}

sanitize_path(s) == strip(SubSeq(s, 1, SkipSet(s, 1, PathSafe) - 1))

(***************************************************************************)
(* Diff model and parser                                                   *)
(***************************************************************************)
DiffFile(a, b) == [old_path |-> a, new_path |-> b, hunks |-> <<>>]

DiffLine(k, t, r) == [kind |-> k, text |-> t, raw |-> r, old_num |-> None, new_num |-> None]

\* HUNK_RE.match(line): ok, and the groups ("" for a group that did not take part)
HUNK_RE(s) ==
    LET no == [ok |-> FALSE, g1 |-> "", g2 |-> "", g3 |-> "", g4 |-> "", g5 |-> ""]
        a1 == SkipSet(s, 3, Whitespace)             \* @@\s*
        d1 == SkipSet(s, a1 + 1, Digits)            \* -(\d+)
        c1 == IF CharAt(From(s, d1) \o " ", 1) = ","
                 /\ SkipSet(s, d1 + 1, Digits) > d1 + 1
              THEN SkipSet(s, d1 + 1, Digits) ELSE d1    \* (?:,(\d+))?
        a2 == SkipSet(s, c1, Whitespace)            \* \s+
        d2 == SkipSet(s, a2 + 1, Digits)            \* \+(\d+)
        c2 == IF CharAt(From(s, d2) \o " ", 1) = ","
                 /\ SkipSet(s, d2 + 1, Digits) > d2 + 1
              THEN SkipSet(s, d2 + 1, Digits) ELSE d2    \* (?:,(\d+))?
        a3 == SkipSet(s, c2, Whitespace)            \* \s*
    IN  IF /\ startswith(s, "@@")
           /\ startswith(From(s, a1), "-") /\ d1 > a1 + 1
           /\ a2 > c1
           /\ startswith(From(s, a2), "+") /\ d2 > a2 + 1
           /\ startswith(From(s, a3), "@@")
        THEN [ok |-> TRUE,
              g1 |-> SubSeq(s, a1 + 1, d1 - 1),
              g2 |-> IF c1 > d1 THEN SubSeq(s, d1 + 1, c1 - 1) ELSE "",
              g3 |-> SubSeq(s, a2 + 1, d2 - 1),
              g4 |-> IF c2 > d2 THEN SubSeq(s, d2 + 1, c2 - 1) ELSE "",
              g5 |-> From(s, a3 + 2)]
        ELSE no

parse_path_from_diff_git(line) ==
    LET parts == split(strip(line))
    IN  IF Len(parts) >= 4 /\ parts[1] = "diff" /\ parts[2] = "--git"
        THEN <<IF startswith(parts[3], "a/") THEN From(parts[3], 3) ELSE parts[3],
               IF startswith(parts[4], "b/") THEN From(parts[4], 3) ELSE parts[4]>>
        ELSE <<"", "">>

\* "" for None: the result of `... or None`
parse_path_line(line) ==
    LET rest == strip(From(line, 5))
        cut == IF startswith(rest, "a/") \/ startswith(rest, "b/") THEN From(rest, 3) ELSE rest
    IN  IF rest = "/dev/null" THEN "" ELSE strip_invisibles(sanitize_path(cut))

\* the branch of the loop body a stripped line takes, in the order of the code
Branch(line) ==
    IF \/ startswith(line, "index ")
       \/ startswith(line, "new file mode")
       \/ startswith(line, "deleted file mode")
       \/ startswith(line, "Binary files ")
       \/ startswith(line, "\\ No newline at end of file") THEN "meta"
    ELSE IF startswith(line, "diff --git ") THEN "diff"
    ELSE IF startswith(line, "rename from ") THEN "rename_from"
    ELSE IF startswith(line, "rename to ") THEN "rename_to"
    ELSE IF startswith(line, "--- ") THEN "old"
    ELSE IF startswith(line, "+++ ") THEN "new"
    ELSE IF HUNK_RE(line).ok THEN "hunk"
    ELSE "body"

\* the input lines the parser is run on (norm_lines(text), "\n" stripped)
LineSet ==
    { "index 1a..2b",
      "\\ No newline at end of file",
      "diff --git a/o.c b/n.c",
      "diff --git q",
      "rename from r.c",
      "rename to s.c",
      "--- /dev/null",
      "--- a/o.c",
      "+++ /dev/null",
      "+++ b/new.txt",
      "@@ -1 +1 @@",
      "@@ -03,2 +3,0 @@ fn() ",
      " c",
      "+a\tb",
      "-d",
      "--- x",
      "@@ stray~" }

TabSizes == {"4", "2147483648"}

\* what the loop body computes from a line, tabulated over LineSet
Line == [raw \in LineSet |-> strip_invisibles(raw)]

BranchOf == [raw \in LineSet |-> Branch(Line[raw])]

GitPathsOf == [raw \in LineSet |-> parse_path_from_diff_git(Line[raw])]

RenameFromOf == [raw \in LineSet |-> strip(From(Line[raw], Len("rename from ") + 1))]

RenameToOf == [raw \in LineSet |-> strip(From(Line[raw], Len("rename to ") + 1))]

PathOf == [raw \in LineSet |-> parse_path_line(Line[raw])]

FunIdle == fn = "idle" /\ arg = <<>> /\ out = <<>>

ParseIdle ==
    /\ tabsize = "4" /\ consumed = <<>> /\ files = <<>> /\ current = <<>>
    /\ current_hunk = 0 /\ saw_any_hunk = FALSE /\ rename_from = "" /\ rename_to = ""
    /\ ppc = "idle" /\ result = <<>>

ParseInit ==
    /\ tabsize \in TabSizes
    /\ consumed = <<>> /\ files = <<>> /\ current = <<>>
    /\ current_hunk = 0 /\ saw_any_hunk = FALSE /\ rename_from = "" /\ rename_to = ""
    /\ ppc = "scan" /\ result = <<>>

\* `for raw in lines` takes the next line
Take(raw, branch) ==
    /\ ppc = "scan"
    /\ Len(consumed) < MaxInput
    /\ BranchOf[raw] = branch
    /\ consumed' = Append(consumed, raw)
    /\ UNCHANGED <<tabsize, result>>
    /\ UNCHANGED <<rvars, fvars>>

\* faulty variant: a skipped line ends the active hunk
MetaLine_EndsHunk ==
    \E raw \in LineSet :
        /\ Take(raw, "meta")
        /\ current_hunk' = 0
        /\ UNCHANGED <<files, current, saw_any_hunk, rename_from, rename_to, ppc>>

MetaLine ==
    \E raw \in LineSet :
        /\ Take(raw, "meta")
        /\ UNCHANGED <<files, current, current_hunk, saw_any_hunk, rename_from, rename_to, ppc>>

\* faulty variant: a `diff --git` line leaves the active hunk as it is
DiffGitLine_KeepsHunk ==
    \E raw \in LineSet :
        LET ab == GitPathsOf[raw] IN
        /\ Take(raw, "diff")
        /\ files' = files \o current
        /\ current' = <<[DiffFile(ab[1], ab[2]) EXCEPT
                            !.hunks = IF current = <<>> \/ current_hunk = 0 THEN <<>>
                                      ELSE <<current[1].hunks[current_hunk]>>]>>
        /\ current_hunk' = IF current = <<>> \/ current_hunk = 0 THEN 0 ELSE 1
        /\ rename_from' = ""
        /\ rename_to' = ""
        /\ UNCHANGED <<saw_any_hunk, ppc>>

DiffGitLine ==
    \E raw \in LineSet :
        LET ab == GitPathsOf[raw] IN
        /\ Take(raw, "diff")
        /\ files' = files \o current
        /\ current' = <<DiffFile(ab[1], ab[2])>>
        /\ current_hunk' = 0
        /\ rename_from' = ""
        /\ rename_to' = ""
        /\ UNCHANGED <<saw_any_hunk, ppc>>

RenameFromLine ==
    \E raw \in LineSet :
        /\ Take(raw, "rename_from")
        /\ rename_from' = RenameFromOf[raw]
        /\ UNCHANGED <<files, current, current_hunk, saw_any_hunk, rename_to, ppc>>

RenameToLine ==
    \E raw \in LineSet :
        /\ Take(raw, "rename_to")
        /\ rename_to' = RenameToOf[raw]
        /\ UNCHANGED <<files, current, current_hunk, saw_any_hunk, rename_from, ppc>>

\* current, opened anonymously if None
Opened == IF current = <<>> THEN DiffFile("", "") ELSE current[1]

OldPathLine ==
    \E raw \in LineSet :
        LET p == PathOf[raw] IN
        /\ Take(raw, "old")
        /\ current' = <<IF p # "" THEN [Opened EXCEPT !.old_path = p] ELSE Opened>>
        /\ UNCHANGED <<files, current_hunk, saw_any_hunk, rename_from, rename_to, ppc>>

\* faulty variant: the rename candidates are taken whether or not the File has paths
NewPathLine_RenameOverrides ==
    \E raw \in LineSet :
        LET p == PathOf[raw]
            f1 == IF p # "" THEN [Opened EXCEPT !.new_path = p] ELSE Opened
            f2 == IF rename_from # "" THEN [f1 EXCEPT !.old_path = rename_from] ELSE f1
            f3 == IF rename_to # "" THEN [f2 EXCEPT !.new_path = rename_to] ELSE f2
        IN
        /\ Take(raw, "new")
        /\ current' = <<f3>>
        /\ UNCHANGED <<files, current_hunk, saw_any_hunk, rename_from, rename_to, ppc>>

NewPathLine ==
    \E raw \in LineSet :
        LET p == PathOf[raw]
            f1 == IF p # "" THEN [Opened EXCEPT !.new_path = p] ELSE Opened
            f2 == IF rename_from # "" /\ f1.old_path = ""
                  THEN [f1 EXCEPT !.old_path = rename_from] ELSE f1
            f3 == IF rename_to # "" /\ f2.new_path = ""
                  THEN [f2 EXCEPT !.new_path = rename_to] ELSE f2
        IN
        /\ Take(raw, "new")
        /\ current' = <<f3>>
        /\ UNCHANGED <<files, current_hunk, saw_any_hunk, rename_from, rename_to, ppc>>

\* faulty variant: the header echoes both counts, supplied or not
Hunk_AlwaysEchoCounts(m) ==
    LET old_start == int(m.g1)
        old_count == int(IF m.g2 # "" THEN m.g2 ELSE "1")
        new_start == int(m.g3)
        new_count == int(IF m.g4 # "" THEN m.g4 ELSE "1")
    IN  [header |-> "@@ -" \o str(old_start) \o "," \o str(old_count)
                    \o " +" \o str(new_start) \o "," \o str(new_count) \o " @@",
         old_start |-> old_start, old_count |-> old_count,
         new_start |-> new_start, new_count |-> new_count, lines |-> <<>>,
         suffix |-> strip(m.g5)]

\* the Hunk built from a match of HUNK_RE
Hunk(m) ==
    LET old_start == int(m.g1)
        old_count == int(IF m.g2 # "" THEN m.g2 ELSE "1")
        new_start == int(m.g3)
        new_count == int(IF m.g4 # "" THEN m.g4 ELSE "1")
        header_core ==
            "@@ -" \o str(old_start)
            \o (IF m.g2 # "" THEN "," \o str(old_count) ELSE "")
            \o " +" \o str(new_start)
            \o (IF m.g4 # "" THEN "," \o str(new_count) ELSE "")
            \o " @@"
    IN  [header |-> header_core, old_start |-> old_start, old_count |-> old_count,
         new_start |-> new_start, new_count |-> new_count, lines |-> <<>>,
         suffix |-> strip(m.g5)]

HunkOf ==
    [raw \in LineSet |-> IF HUNK_RE(Line[raw]).ok THEN <<Hunk(HUNK_RE(Line[raw]))>> ELSE <<>>]

HunkHeaderLine ==
    \E raw \in LineSet :
        /\ Take(raw, "hunk")
        /\ saw_any_hunk' = TRUE
        /\ current' = <<[Opened EXCEPT !.hunks = Append(@, HunkOf[raw][1])]>>
        /\ current_hunk' = Len(Opened.hunks) + 1
        /\ UNCHANGED <<files, rename_from, rename_to, ppc>>

\* `if current_hunk is None: continue`
DroppedLine ==
    \E raw \in LineSet :
        /\ Take(raw, "body")
        /\ current_hunk = 0
        /\ UNCHANGED <<files, current, current_hunk, saw_any_hunk, rename_from, rename_to, ppc>>

\* the DiffLine of a line inside a hunk
Classify(line, ts) ==
    IF startswith(line, "+") /\ ~startswith(line, "+++ ")
    THEN DiffLine("add", strip_invisibles(expandtabs(From(line, 2), ts)), line)
    ELSE IF startswith(line, "-") /\ ~startswith(line, "--- ")
    THEN DiffLine("del", strip_invisibles(expandtabs(From(line, 2), ts)), line)
    ELSE DiffLine("ctx",
                  strip_invisibles(expandtabs(IF startswith(line, " ") THEN From(line, 2) ELSE line, ts)),
                  line)

ClassifyOf ==
    [raw \in LineSet |->
        [ts \in {t \in TabSizes : ~expandtabs_raises(t)} |-> Classify(Line[raw], int(ts))]]

BodyLine ==
    \E raw \in LineSet :
        /\ Take(raw, "body")
        /\ current_hunk # 0
        /\ ~expandtabs_raises(tabsize)
        /\ current' = <<[current[1] EXCEPT !.hunks[current_hunk].lines =
                            Append(@, ClassifyOf[raw][tabsize])]>>
        /\ UNCHANGED <<files, current_hunk, saw_any_hunk, rename_from, rename_to, ppc>>

\* str.expandtabs raises OverflowError and the exception leaves parse_unified_diff
BodyLineRaises ==
    \E raw \in LineSet :
        /\ ppc = "scan"
        /\ Len(consumed) < MaxInput
        /\ BranchOf[raw] = "body"
        /\ current_hunk # 0
        /\ expandtabs_raises(tabsize)
        /\ consumed' = Append(consumed, raw)
        /\ ppc' = "raised"
        /\ UNCHANGED <<tabsize, result, files, current, current_hunk, saw_any_hunk,
                       rename_from, rename_to>>
        /\ UNCHANGED <<rvars, fvars>>

\* faulty variant: a deleted line advances both counters
RECURSIVE NumberLines_DelAdvancesBoth(_, _, _)
NumberLines_DelAdvancesBoth(ls, old_ln, new_ln) ==
    IF ls = <<>> THEN <<>>
    ELSE LET dl == Head(ls) IN
         IF dl.kind = "ctx"
         THEN <<[dl EXCEPT !.old_num = old_ln, !.new_num = new_ln]>>
              \o NumberLines_DelAdvancesBoth(Tail(ls), old_ln + 1, new_ln + 1)
         ELSE IF dl.kind = "del"
         THEN <<[dl EXCEPT !.old_num = old_ln]>>
              \o NumberLines_DelAdvancesBoth(Tail(ls), old_ln + 1, new_ln + 1)
         ELSE <<[dl EXCEPT !.new_num = new_ln]>>
              \o NumberLines_DelAdvancesBoth(Tail(ls), old_ln, new_ln + 1)

\* faulty variant: a context line records both numbers and advances only the old counter
RECURSIVE NumberLines_CtxKeepsNew(_, _, _)
NumberLines_CtxKeepsNew(ls, old_ln, new_ln) ==
    IF ls = <<>> THEN <<>>
    ELSE LET dl == Head(ls) IN
         IF dl.kind = "ctx"
         THEN <<[dl EXCEPT !.old_num = old_ln, !.new_num = new_ln]>>
              \o NumberLines_CtxKeepsNew(Tail(ls), old_ln + 1, new_ln)
         ELSE IF dl.kind = "del"
         THEN <<[dl EXCEPT !.old_num = old_ln]>>
              \o NumberLines_CtxKeepsNew(Tail(ls), old_ln + 1, new_ln)
         ELSE <<[dl EXCEPT !.new_num = new_ln]>>
              \o NumberLines_CtxKeepsNew(Tail(ls), old_ln, new_ln + 1)

\* the numbering pass over h.lines, from counters old_ln and new_ln
RECURSIVE NumberLines(_, _, _)
NumberLines(ls, old_ln, new_ln) ==
    IF ls = <<>> THEN <<>>
    ELSE LET dl == Head(ls) IN
         IF dl.kind = "ctx"
         THEN <<[dl EXCEPT !.old_num = old_ln, !.new_num = new_ln]>>
              \o NumberLines(Tail(ls), old_ln + 1, new_ln + 1)
         ELSE IF dl.kind = "del"
         THEN <<[dl EXCEPT !.old_num = old_ln]>> \o NumberLines(Tail(ls), old_ln + 1, new_ln)
         ELSE IF dl.kind = "add"
         THEN <<[dl EXCEPT !.new_num = new_ln]>> \o NumberLines(Tail(ls), old_ln, new_ln + 1)
         ELSE <<dl>> \o NumberLines(Tail(ls), old_ln, new_ln)

NumberHunk(h) == [h EXCEPT !.lines = NumberLines(h.lines, h.old_start, h.new_start)]

Placeholder(f) ==
    IF f.old_path = "" /\ f.new_path = ""
    THEN [f EXCEPT !.old_path = "(Unnamed OLD)", !.new_path = "(Unnamed NEW)"]
    ELSE f

PostPass(f) ==
    [Placeholder(f) EXCEPT !.hunks = [k \in 1..Len(f.hunks) |-> NumberHunk(f.hunks[k])]]

\* faulty variant: the list is returned whether or not a hunk header was seen
Finish_IgnoresSawAnyHunk ==
    /\ ppc = "scan"
    /\ files' = files \o current
    /\ result' = [k \in 1..Len(files') |-> PostPass(files'[k])]
    /\ ppc' = "done"
    /\ UNCHANGED <<tabsize, consumed, current, current_hunk, saw_any_hunk, rename_from, rename_to>>
    /\ UNCHANGED <<rvars, fvars>>

\* the end of the loop: the open file is appended, and the list is returned
Finish ==
    /\ ppc = "scan"
    /\ files' = files \o current
    /\ result' = IF ~saw_any_hunk THEN <<>>
                 ELSE [k \in 1..Len(files') |-> PostPass(files'[k])]
    /\ ppc' = "done"
    /\ UNCHANGED <<tabsize, consumed, current, current_hunk, saw_any_hunk, rename_from, rename_to>>
    /\ UNCHANGED <<rvars, fvars>>

(***************************************************************************)
(* Layout and Renderer.  A text is its number of glyphs: the renderer only *)
(* measures and wraps it, and the texts here hold no whitespace.           *)
(***************************************************************************)
margin == 440
font_size == 95
line_gap == 22
col_gap == 160
gutter_gap == 60
gutter_chars == 5
gap_badge_to_hunk == 20
gap_hunk_to_code == 40
block_gap_y == 60
min_rows_on_page == 3

A4_width == 5950
A4_height == 8420
header_h == 280         \* the 28 points under y0 that the page header takes
force_break == 100000   \* ensure_y(10_000)

Max(a, b) == IF a >= b THEN a ELSE b

line_h == font_size + line_gap

\* text_width of n glyphs in courier, the fallback of safe_font: 0.6 em each
text_width(n) == (6 * font_size * n) \div 10

\* Renderer.new_page: the width and the height of a page
page_width(ls) == IF ls THEN A4_height ELSE A4_width

page_height(ls) == IF ls THEN A4_width ELSE A4_height

\* Renderer.box
x0 == margin
y0 == margin
x1 == page_width(landscape) - margin
y1 == page_height(landscape) - margin

page_capacity == y1 - (y0 + header_h)

\* the baseline start_if_needed and ensure_y give a fresh page
top_base == y0 + header_h + font_size

gutter_w == text_width(gutter_chars + 1)

\* max_w of the unified view
max_w_unified(ls) == Max(120, (page_width(ls) - margin) - (x0 + gutter_w + gutter_gap))

\* l_max and r_max of the side-by-side view (the two are equal)
max_w_sbs(ls) ==
    LET col_w == ((page_width(ls) - margin) - x0 - col_gap) \div 2
        left_x1 == x0 + col_w
        left_text_x == x0 + gutter_w + gutter_gap
    IN  Max(120, left_x1 - left_text_x)

\* the binary search of wrap_text over rest[:mid]
RECURSIVE wrap_cut(_, _, _, _)
wrap_cut(lo, hi_, cut, max_w) ==
    IF lo > hi_ THEN cut
    ELSE LET mid == (lo + hi_) \div 2 IN
         IF text_width(mid) <= max_w
         THEN wrap_cut(mid + 1, hi_, mid, max_w)
         ELSE wrap_cut(lo, mid - 1, cut, max_w)

\* the rows the while loop of wrap_text appends for `rest` glyphs without
\* whitespace: none when rest is empty, the rest when it fits, else a cut and on
RECURSIVE wrap_loop(_, _)
wrap_loop(rest, max_w) ==
    IF text_width(rest) <= max_w THEN (IF rest = 0 THEN 0 ELSE 1)
    ELSE 1 + wrap_loop(rest - wrap_cut(1, rest, 1, max_w), max_w)

\* len(wrap_text(s, max_w, ...)) for a text of n glyphs
wrap_rows(n, max_w) ==
    IF n = 0 THEN 1
    ELSE IF text_width(n) <= max_w THEN 1
    ELSE wrap_loop(n, max_w)

\* the texts of the files rendered
TextLens == {0, 10, 12, 400, 2100, 2300}

RowsUnified == [n \in TextLens |-> [ls \in BOOLEAN |-> wrap_rows(n, max_w_unified(ls))]]

RowsSbs == [n \in TextLens |-> [ls \in BOOLEAN |-> wrap_rows(n, max_w_sbs(ls))]]

\* len(parts) * line_h
rows_h_unified(text) == RowsUnified[text][landscape] * line_h

Visible(h, hide) == {k \in 1..Len(h.lines) : ~(hide /\ h.lines[k].kind = "ctx")}

RECURSIVE SumRows(_, _)
SumRows(h, ks) ==
    IF ks = {} THEN 0
    ELSE LET k == CHOOSE k \in ks : TRUE
         IN  rows_h_unified(h.lines[k].text) + SumRows(h, ks \ {k})

\* faulty variant: every line is measured as one row, wrapped or not
measure_hunk_height_unified_NoWrap(hunk, hide) ==
    line_h + gap_hunk_to_code
    + (IF hunk.suffix > 0 THEN line_h ELSE 0)
    + Cardinality(Visible(hunk, hide)) * line_h
    + block_gap_y

measure_hunk_height_unified(hunk, hide) ==
    line_h + gap_hunk_to_code
    + (IF hunk.suffix > 0 THEN rows_h_unified(hunk.suffix) ELSE 0)
    + SumRows(hunk, Visible(hunk, hide))
    + block_gap_y

RECURSIVE measure_hunks(_, _)
measure_hunks(hs, hide) ==
    IF hs = <<>> THEN 0
    ELSE line_h + gap_hunk_to_code
         + (IF Head(hs).suffix > 0 THEN rows_h_unified(Head(hs).suffix) ELSE 0)
         + SumRows(Head(hs), Visible(Head(hs), hide))
         + block_gap_y
         + measure_hunks(Tail(hs), hide)

measure_file_height_unified(diff_file, hide) ==
    line_h + gap_badge_to_hunk + measure_hunks(diff_file.hunks, hide) + block_gap_y

\* the cursor: the number of the current page and the baseline
Cursor == [page |-> page, y |-> y_base]

space_left(c) == y1 - (c.y - font_size)

\* faulty variant: the new page starts at the top margin, without the room of the page header
ensure_y_NoHeaderRoom(c, rows_h) ==
    IF space_left(c) >= rows_h THEN c ELSE [page |-> c.page + 1, y |-> y0 + font_size]

ensure_y(c, rows_h) ==
    IF space_left(c) >= rows_h THEN c ELSE [page |-> c.page + 1, y |-> top_base]

widow_check_before_hunk(c) ==
    LET needed == line_h + gap_hunk_to_code + (min_rows_on_page * line_h)
    IN  IF space_left(c) < needed THEN ensure_y(c, force_break) ELSE c

start_if_needed == IF page = 0 THEN [page |-> 1, y |-> top_base] ELSE Cursor

\* a block of rows drawn from baseline c.y down
Block(kind, c, rows) ==
    [kind |-> kind, page |-> c.page, top |-> c.y - font_size,
     bottom |-> c.y - font_size + rows * line_h]

Nothing == [kind |-> "none", page |-> 0, top |-> 0, bottom |-> 0]

\* the files rendered: the hunks a parse gives, texts by their length
RLine(k, n) == [kind |-> k, text |-> n]

Small == [suffix |-> 0, lines |-> <<RLine("ctx", 0)>>]

Func == [suffix |-> 12, lines |-> <<RLine("del", 10), RLine("add", 400), RLine("ctx", 10)>>]

Fill == [suffix |-> 0, lines |-> <<RLine("del", 2100), RLine("add", 2100)>>]

Tall == [suffix |-> 0, lines |-> <<RLine("add", 400), RLine("del", 2100), RLine("add", 2100), RLine("del", 2100)>>]

Long == [suffix |-> 0, lines |-> <<RLine("del", 2300)>>]

HunkSet == {Small, Func, Fill, Tall, Long}

FileSet ==
    {[hunks |-> <<>>]} \cup {[hunks |-> <<a>>] : a \in HunkSet}
    \cup {[hunks |-> <<a, b>>] : a \in HunkSet, b \in HunkSet}

RenderIdle ==
    /\ view = "unified" /\ hide_context = FALSE /\ landscape = FALSE /\ page = 0 /\ y_base = 0
    /\ queue = 0 /\ cur = [hunks |-> <<>>] /\ rpc = "idle" /\ hi = 0 /\ li = 0
    /\ drawn = Nothing /\ badge_page = 0 /\ header_page = 0 /\ after_header = 0

\* Renderer.__init__, and main about to render all_files
RenderInit ==
    /\ view \in {"unified", "side-by-side"}
    /\ hide_context \in (IF view = "unified" THEN BOOLEAN ELSE {FALSE})
    /\ landscape \in BOOLEAN
    /\ page = 0 /\ y_base = 0
    /\ queue = MaxFiles /\ cur = [hunks |-> <<>>] /\ rpc = "next" /\ hi = 0 /\ li = 0
    /\ drawn = Nothing /\ badge_page = 0 /\ header_page = 0 /\ after_header = 0

\* the frame of a render step
Step(c, d) ==
    /\ page' = c.page
    /\ y_base' = c.y
    /\ drawn' = d
    /\ UNCHANGED <<view, hide_context, landscape>>
    /\ UNCHANGED <<pvars, fvars>>

\* render_file_unified up to draw_file_badge
BeginFileUnified ==
    \E f \in FileSet :
        LET c0 == start_if_needed
            required == measure_file_height_unified(f, hide_context)
            c1 == IF required <= page_capacity /\ required > space_left(c0)
                  THEN ensure_y(c0, force_break) ELSE c0
            c2 == ensure_y(c1, line_h)
        IN
        /\ rpc = "next" /\ queue > 0 /\ view = "unified"
        /\ cur' = f
        /\ Step([c2 EXCEPT !.y = c2.y + line_h + gap_badge_to_hunk], Block("badge", c2, 1))
        /\ badge_page' = c2.page
        /\ rpc' = "hunks" /\ hi' = 1 /\ li' = 0
        /\ UNCHANGED <<queue, header_page, after_header>>

\* render_file_sbs up to draw_file_badge
BeginFileSbs ==
    \E f \in FileSet :
        LET c2 == ensure_y(start_if_needed, line_h) IN
        /\ rpc = "next" /\ queue > 0 /\ view = "side-by-side"
        /\ cur' = f
        /\ Step([c2 EXCEPT !.y = c2.y + line_h + gap_badge_to_hunk], Block("badge", c2, 1))
        /\ badge_page' = c2.page
        /\ rpc' = "hunks" /\ hi' = 1 /\ li' = 0
        /\ UNCHANGED <<queue, header_page, after_header>>

\* the head of the loop over the hunks, unified: keep-together, widow check, header
HunkHeaderUnified ==
    LET h == cur.hunks[hi]
        h_req == measure_hunk_height_unified(h, hide_context)
        c1 == IF h_req > space_left(Cursor) /\ h_req <= page_capacity
              THEN ensure_y(Cursor, force_break) ELSE Cursor
        c3 == ensure_y(widow_check_before_hunk(c1), line_h)
    IN
    /\ rpc = "hunks" /\ hi <= Len(cur.hunks) /\ view = "unified"
    /\ Step([c3 EXCEPT !.y = c3.y + line_h + gap_hunk_to_code], Block("header", c3, 1))
    /\ header_page' = c3.page /\ after_header' = 0
    /\ rpc' = (IF h.suffix > 0 THEN "suffix" ELSE "lines") /\ li' = 1
    /\ UNCHANGED <<queue, cur, hi, badge_page>>

\* the head of the loop over the hunks, side by side: widow check, header
HunkHeaderSbs ==
    LET c3 == ensure_y(widow_check_before_hunk(Cursor), line_h) IN
    /\ rpc = "hunks" /\ hi <= Len(cur.hunks) /\ view = "side-by-side"
    /\ Step([c3 EXCEPT !.y = c3.y + line_h + gap_hunk_to_code], Block("header", c3, 1))
    /\ header_page' = c3.page /\ after_header' = 0
    /\ rpc' = "lines" /\ li' = 1
    /\ UNCHANGED <<queue, cur, hi, badge_page>>

\* `if h.suffix:` the suffix rows
SuffixUnified ==
    LET rows == RowsUnified[cur.hunks[hi].suffix][landscape]
        c1 == ensure_y(Cursor, rows * line_h)
    IN
    /\ rpc = "suffix"
    /\ Step([c1 EXCEPT !.y = c1.y + rows * line_h], Block("suffix", c1, rows))
    /\ after_header' = after_header + 1
    /\ rpc' = "lines"
    /\ UNCHANGED <<queue, cur, hi, li, badge_page, header_page>>

\* one pass of `for dl in h.lines`: the rows of a line
LineUnified ==
    LET dl == cur.hunks[hi].lines[li]
        rows == RowsUnified[dl.text][landscape]
        c1 == ensure_y(Cursor, rows * line_h)
    IN
    /\ rpc = "lines" /\ view = "unified" /\ li <= Len(cur.hunks[hi].lines)
    /\ ~(hide_context /\ dl.kind = "ctx")
    /\ Step([c1 EXCEPT !.y = c1.y + rows * line_h], Block("line", c1, rows))
    /\ after_header' = after_header + 1
    /\ li' = li + 1
    /\ UNCHANGED <<queue, cur, hi, rpc, badge_page, header_page>>

\* `if hide_context and dl.kind == "ctx": continue`
SkipContextLine ==
    /\ rpc = "lines" /\ view = "unified" /\ li <= Len(cur.hunks[hi].lines)
    /\ hide_context /\ cur.hunks[hi].lines[li].kind = "ctx"
    /\ Step(Cursor, Nothing)
    /\ li' = li + 1
    /\ UNCHANGED <<queue, cur, hi, rpc, badge_page, header_page, after_header>>

\* faulty variant: a deleted line never looks at the line after it
PairAt_NoLookahead(lines, i) ==
    IF lines[i].kind = "del" THEN <<i, 0, 1>>
    ELSE IF lines[i].kind = "add" THEN <<0, i, 1>>
    ELSE <<i, i, 1>>

\* the pairing of the side-by-side scan at index i: <<left, right, lines consumed>>,
\* 0 for an absent side
PairAt(lines, i) ==
    IF lines[i].kind = "del"
    THEN IF i + 1 <= Len(lines) /\ lines[i + 1].kind = "add"
         THEN <<i, i + 1, 2>> ELSE <<i, 0, 1>>
    ELSE IF lines[i].kind = "add" THEN <<0, i, 1>>
    ELSE <<i, i, 1>>

\* one pass of `while i < len(h.lines)`: the rows of a pair
PairSbs ==
    LET lines == cur.hunks[hi].lines
        pr == PairAt(lines, li)
        l_rows == IF pr[1] # 0 THEN RowsSbs[lines[pr[1]].text][landscape] ELSE 1
        r_rows == IF pr[2] # 0 THEN RowsSbs[lines[pr[2]].text][landscape] ELSE 1
        rows == Max(l_rows, r_rows)
        c1 == ensure_y(Cursor, rows * line_h)
    IN
    /\ rpc = "lines" /\ view = "side-by-side" /\ li <= Len(lines)
    /\ Step([c1 EXCEPT !.y = c1.y + rows * line_h], Block("line", c1, rows))
    /\ after_header' = after_header + 1
    /\ li' = li + pr[3]
    /\ UNCHANGED <<queue, cur, hi, rpc, badge_page, header_page>>

\* the end of a hunk: self.y_base += block_gap_y
HunkEnd ==
    /\ rpc = "lines" /\ li > Len(cur.hunks[hi].lines)
    /\ Step([Cursor EXCEPT !.y = y_base + block_gap_y], Nothing)
    /\ hi' = hi + 1 /\ rpc' = "hunks" /\ li' = 0
    /\ UNCHANGED <<queue, cur, badge_page, header_page, after_header>>

\* the end of a file: self.y_base += block_gap_y, and main goes on
FileEnd ==
    /\ rpc = "hunks" /\ hi > Len(cur.hunks)
    /\ Step([Cursor EXCEPT !.y = y_base + block_gap_y], Nothing)
    /\ queue' = queue - 1 /\ rpc' = "next" /\ hi' = 0
    /\ UNCHANGED <<cur, li, badge_page, header_page, after_header>>

(***************************************************************************)
(* The hunk-header branch of the loop applied to one line.  A line is      *)
(* written from its pieces; each piece carries what it means (the value    *)
(* of a numeral, its canonical form, the trimmed suffix).                  *)
(***************************************************************************)
Numeral(t, v) == [s |-> t, v |-> v, c |-> IF v >= 0 THEN str(v) ELSE ""]

StartPieces == {Numeral("1", 1), Numeral("03", 3)}

\* a count: absent, a comma alone (no count: the line is not a header), or supplied
CountPieces == {Numeral("", -1), Numeral(",", -2), Numeral(",0", 0), Numeral(",12", 12)}

SuffixPieces ==
    { [s |-> "", t |-> ""], [s |-> "  ", t |-> ""], [s |-> " fn() {\t", t |-> "fn() {"],
      [s |-> "@@ -1 +1 @@", t |-> "@@ -1 +1 @@"] }

HeaderPieces ==
    [sp1 : {"", " "}, os : StartPieces, oc : CountPieces, sp2 : {"", " ", "\t "},
     ns : {Numeral("7", 7)}, nc : CountPieces, sp3 : {"", " "}, sfx : SuffixPieces]

HeaderText(p) ==
    "@@" \o p.sp1 \o "-" \o p.os.s \o p.oc.s \o p.sp2
         \o "+" \o p.ns.s \o p.nc.s \o p.sp3 \o "@@" \o p.sfx.s

HeaderInit ==
    /\ fn = "HUNK_RE" /\ arg \in HeaderPieces /\ out = <<>>

\* m = HUNK_RE.match(line); if m: ... Hunk(...)
MatchHunkHeader ==
    LET m == HUNK_RE(HeaderText(arg)) IN
    /\ fn = "HUNK_RE"
    /\ fn' = "Hunk"
    /\ out' = IF m.ok THEN <<Hunk(m)>> ELSE <<>>
    /\ UNCHANGED <<arg, pvars, rvars>>

HeaderSpecInit == ParseIdle /\ RenderIdle /\ HeaderInit

HeaderNext == MatchHunkHeader

HeaderSpec == HeaderSpecInit /\ [][HeaderNext]_vars

(***************************************************************************)
(* wrap_text applied to a text.  The measurement is the sum of the glyph   *)
(* widths of a font: a narrow letter, a wide letter, the space and the tab.*)
(***************************************************************************)
GlyphWidth == [c \in {"a", "W", " ", "\t"} |-> IF c = "a" THEN 6 ELSE IF c = "W" THEN 10 ELSE 3]

\* text_width(s, fontname, fontsize) of a string
RECURSIVE text_width_of(_)
text_width_of(t) ==
    IF Len(t) = 0 THEN 0 ELSE GlyphWidth[CharAt(t, 1)] + text_width_of(From(t, 2))

\* s.rfind(c): 0-based, -1 if c is not in s
rfind(t, c) ==
    LET ks == {k \in 1..Len(t) : CharAt(t, k) = c}
    IN  IF ks = {} THEN -1 ELSE (CHOOSE k \in ks : \A j \in ks : j <= k) - 1

rstrip(t) ==
    LET b == SkipSetBack(t, Len(t), Whitespace) IN IF b = 0 THEN "" ELSE SubSeq(t, 1, b)

\* faulty variant: the search accepts a prefix when the prefix one shorter fits
RECURSIVE bisect_cut_OneTooLong(_, _, _, _, _)
bisect_cut_OneTooLong(rest, lo, hi_, cut, max_w) ==
    IF lo > hi_ THEN cut
    ELSE LET mid == (lo + hi_) \div 2 IN
         IF text_width_of(SubSeq(rest, 1, mid - 1)) <= max_w
         THEN bisect_cut_OneTooLong(rest, mid + 1, hi_, mid, max_w)
         ELSE bisect_cut_OneTooLong(rest, lo, mid - 1, cut, max_w)

\* the binary search of wrap_text: `while lo <= hi`
RECURSIVE bisect_cut(_, _, _, _, _)
bisect_cut(rest, lo, hi_, cut, max_w) ==
    IF lo > hi_ THEN cut
    ELSE LET mid == (lo + hi_) \div 2 IN
         IF text_width_of(SubSeq(rest, 1, mid)) <= max_w
         THEN bisect_cut(rest, mid + 1, hi_, mid, max_w)
         ELSE bisect_cut(rest, lo, mid - 1, cut, max_w)

\* a row appended to out, with what the pass removed from rest after it
Pass(row, dropped, brk) == [row |-> row, dropped |-> dropped, brk |-> brk]

\* faulty variant: a whitespace break keeps the row as cut, and drops the character after it
RECURSIVE wrap_while_DropsAfterCut(_, _)
wrap_while_DropsAfterCut(rest, max_w) ==
    IF rest = "" THEN <<>>
    ELSE IF text_width_of(rest) <= max_w THEN <<Pass(rest, "", "end")>>
    ELSE LET cut == bisect_cut(rest, 1, Len(rest), 1, max_w)
             slice_ == SubSeq(rest, 1, cut)
             ws == Max(rfind(slice_, " "), rfind(slice_, "\t"))
         IN  IF ws >= 0 /\ ws >= (6 * cut) \div 10
             THEN <<Pass(slice_, "", "ws")>> \o wrap_while_DropsAfterCut(From(rest, cut + 2), max_w)
             ELSE <<Pass(slice_, "", "hard")>> \o wrap_while_DropsAfterCut(From(rest, cut + 1), max_w)

\* `while rest:` of wrap_text
RECURSIVE wrap_while(_, _)
wrap_while(rest, max_w) ==
    IF rest = "" THEN <<>>
    ELSE IF text_width_of(rest) <= max_w THEN <<Pass(rest, "", "end")>>
    ELSE LET cut == bisect_cut(rest, 1, Len(rest), 1, max_w)
             slice_ == SubSeq(rest, 1, cut)
             ws == Max(rfind(slice_, " "), rfind(slice_, "\t"))
             row == rstrip(IF ws <= 0 THEN "" ELSE SubSeq(slice_, 1, ws))
         IN  IF ws >= 0 /\ ws >= (6 * cut) \div 10
             THEN <<Pass(row, SubSeq(rest, Len(row) + 1, ws + 1), "ws")>>
                  \o wrap_while(From(rest, ws + 2), max_w)
             ELSE <<Pass(slice_, "", "hard")>> \o wrap_while(From(rest, cut + 1), max_w)

\* faulty variant: a text that fits is still put through the loop, the empty text too
wrap_passes_NoShortcut(t, max_w) == wrap_while(t, max_w)

wrap_passes(t, max_w) ==
    IF t = "" THEN <<Pass("", "", "end")>>
    ELSE IF text_width_of(t) <= max_w THEN <<Pass(t, "", "end")>>
    ELSE wrap_while(t, max_w)

\* wrap_text(s, max_w, fontname, fontsize): the rows
wrap_text(t, max_w) ==
    LET ps == wrap_passes(t, max_w) IN [k \in 1..Len(ps) |-> ps[k].row]

\* the texts of at most n characters
RECURSIVE Texts(_)
Texts(n) ==
    IF n = 0 THEN {""}
    ELSE LET shorter == Texts(n - 1)
         IN  shorter \cup {t \o c : t \in {u \in shorter : Len(u) = n - 1}, c \in DOMAIN GlyphWidth}

\* max_w: less than any glyph, room for the narrow letter only, for two, for three
Widths == {2, 7, 12, 20}

WrapInit ==
    /\ fn = "wrap_text" /\ arg \in [s : Texts(MaxText), max_w : Widths] /\ out = <<>>

WrapText ==
    /\ fn = "wrap_text"
    /\ fn' = "wrapped"
    /\ out' = wrap_passes(arg.s, arg.max_w)
    /\ UNCHANGED <<arg, pvars, rvars>>

WrapSpecInit == ParseIdle /\ RenderIdle /\ WrapInit

WrapNext == WrapText

WrapSpec == WrapSpecInit /\ [][WrapNext]_vars

(***************************************************************************)
(* The side-by-side scan over the lines of a hunk, in render_file_sbs and  *)
(* in render_word.  A pair is <<left, right>>, indices in h.lines, 0 for   *)
(* an absent side.                                                         *)
(***************************************************************************)
\* render_word: the pairing at index i, <<left, right, lines consumed>>
WordPairAt(lines, i) ==
    IF lines[i].kind = "del"
    THEN IF i + 1 <= Len(lines) /\ lines[i + 1].kind = "add"
         THEN <<i, i + 1, 2>> ELSE <<i, 0, 1>>
    ELSE IF lines[i].kind = "add" THEN <<0, i, 1>>
    ELSE <<i, i, 1>>

\* `while i < len(h.lines)` of render_file_sbs
RECURSIVE sbs_pairs(_, _)
sbs_pairs(lines, i) ==
    IF i > Len(lines) THEN <<>>
    ELSE LET pr == PairAt(lines, i) IN <<<<pr[1], pr[2]>>>> \o sbs_pairs(lines, i + pr[3])

\* `while i < len(h.lines)` of render_word
RECURSIVE word_pairs(_, _)
word_pairs(lines, i) ==
    IF i > Len(lines) THEN <<>>
    ELSE LET pr == WordPairAt(lines, i) IN <<<<pr[1], pr[2]>>>> \o word_pairs(lines, i + pr[3])

\* the line sequences of at most n lines, a line by its kind and a short text
RECURSIVE LineSeqs(_)
LineSeqs(n) ==
    IF n = 0 THEN {<<>>}
    ELSE LET shorter == LineSeqs(n - 1)
         IN  shorter \cup {Append(ls, RLine(k, 10)) :
                              ls \in {u \in shorter : Len(u) = n - 1}, k \in {"ctx", "del", "add"}}

PairInit ==
    /\ fn = "pairing" /\ arg \in LineSeqs(MaxLines) /\ out = <<>>

\* both renderers scan the hunk
PairLines ==
    /\ fn = "pairing"
    /\ fn' = "paired"
    /\ out' = [pdf |-> sbs_pairs(arg, 1), word |-> word_pairs(arg, 1)]
    /\ UNCHANGED <<arg, pvars, rvars>>

PairSpecInit == ParseIdle /\ RenderIdle /\ PairInit

PairNext == PairLines

PairSpec == PairSpecInit /\ [][PairNext]_vars

(***************************************************************************)
(* main.  An input path is what reading and parsing it comes to: the file  *)
(* is missing, the path is a directory, the text holds no diff, the text   *)
(* holds a diff.  fn is the position in main, arg the command line and     *)
(* the environment, out the state of the run.                              *)
(***************************************************************************)
InputKinds == {"missing", "directory", "nodiff", "diff"}

RECURSIVE ArgLists(_)
ArgLists(n) ==
    IF n = 1 THEN {<<k>> : k \in InputKinds}
    ELSE LET shorter == ArgLists(n - 1)
         IN  shorter \cup {Append(a, k) : a \in {u \in shorter : Len(u) = n - 1}, k \in InputKinds}

\* parse_args: inputs (nargs="+"), --word / --word-output; docx: python-docx can be imported
MainInit ==
    /\ fn = "inputs"
    /\ arg \in [inputs : ArgLists(MaxArgs), word : BOOLEAN, docx : BOOLEAN]
    /\ out = [i |-> 1, all_files |-> <<>>, warned |-> <<>>, pdf |-> FALSE, docx_file |-> FALSE,
              status |-> None]

MainFrame == UNCHANGED <<arg, pvars, rvars>>

\* except FileNotFoundError: warn and continue
InputMissing ==
    /\ fn = "inputs" /\ out.i <= Len(arg.inputs) /\ arg.inputs[out.i] = "missing"
    /\ out' = [out EXCEPT !.i = @ + 1, !.warned = Append(@, out.i)]
    /\ UNCHANGED fn /\ MainFrame

\* open() raises IsADirectoryError, which nothing catches: traceback, status 1
InputUnreadable ==
    /\ fn = "inputs" /\ out.i <= Len(arg.inputs) /\ arg.inputs[out.i] = "directory"
    /\ out' = [out EXCEPT !.status = 1]
    /\ fn' = "exit" /\ MainFrame

\* parsed = parse_unified_diff(txt, ...); all_files.extend(parsed)
InputParsed ==
    /\ fn = "inputs" /\ out.i <= Len(arg.inputs) /\ arg.inputs[out.i] \in {"nodiff", "diff"}
    /\ out' = [out EXCEPT !.i = @ + 1,
                          !.all_files = IF arg.inputs[out.i] = "diff" THEN Append(@, out.i) ELSE @]
    /\ UNCHANGED fn /\ MainFrame

\* if not all_files: ... sys.exit(2)
NothingParsable ==
    /\ fn = "inputs" /\ out.i > Len(arg.inputs) /\ out.all_files = <<>>
    /\ out' = [out EXCEPT !.status = 2]
    /\ fn' = "exit" /\ MainFrame

\* the render loop and renderer.save(args.output)
RenderPdf ==
    /\ fn = "inputs" /\ out.i > Len(arg.inputs) /\ out.all_files # <<>>
    /\ out' = [out EXCEPT !.pdf = TRUE]
    /\ fn' = "word" /\ MainFrame

\* `if args.word or args.word_output` is false: main returns
NoWord ==
    /\ fn = "word" /\ ~arg.word
    /\ out' = [out EXCEPT !.status = 0]
    /\ fn' = "exit" /\ MainFrame

\* render_word writes the document and main returns
RenderWord ==
    /\ fn = "word" /\ arg.word /\ arg.docx
    /\ out' = [out EXCEPT !.docx_file = TRUE, !.status = 0]
    /\ fn' = "exit" /\ MainFrame

\* render_word: except ImportError: ... sys.exit(1)
RenderWordImportError ==
    /\ fn = "word" /\ arg.word /\ ~arg.docx
    /\ out' = [out EXCEPT !.status = 1]
    /\ fn' = "exit" /\ MainFrame

MainSpecInit == ParseIdle /\ RenderIdle /\ MainInit

MainNext ==
    \/ InputMissing \/ InputUnreadable \/ InputParsed \/ NothingParsable
    \/ RenderPdf \/ NoWord \/ RenderWord \/ RenderWordImportError

MainSpec == MainSpecInit /\ [][MainNext]_vars

(***************************************************************************)
(* ensure_y called on its own from a state with a page.  The pages of the  *)
(* document are numbered 1..page and the current page is the last.         *)
(***************************************************************************)
\* baselines a row can stand on, down to below the bottom margin
Baselines == {top_base + k * line_h : k \in 0..70}

RowHeights == {0, line_h, 4 * line_h + gap_hunk_to_code, 62 * line_h, 63 * line_h, force_break}

EnsureInit ==
    /\ view = "unified" /\ hide_context = FALSE /\ landscape \in BOOLEAN
    /\ page \in 1..2 /\ y_base \in Baselines
    /\ queue = 0 /\ cur = [hunks |-> <<>>] /\ rpc = "ensure_y" /\ hi = 0 /\ li = 0
    /\ drawn = Nothing /\ badge_page = 0 /\ header_page = 0 /\ after_header = 0
    /\ fn = "ensure_y"
    /\ arg \in [rows_h : RowHeights, title : {"Changed Code"}, page : {page}, y_base : {y_base}]
    /\ out = <<>>

\* self.ensure_y(rows_h); out is the title draw_header was given, if a page was added
EnsureY ==
    LET c == ensure_y(Cursor, arg.rows_h) IN
    /\ fn = "ensure_y"
    /\ page' = c.page
    /\ y_base' = c.y
    /\ out' = [title |-> arg.title,
               header |-> IF space_left(Cursor) >= arg.rows_h THEN "" ELSE arg.title]
    /\ fn' = "returned"
    /\ UNCHANGED <<arg, pvars>>
    /\ UNCHANGED <<view, hide_context, landscape, queue, cur, rpc, hi, li, drawn,
                   badge_page, header_page, after_header>>

EnsureSpecInit == ParseIdle /\ EnsureInit

EnsureNext == EnsureY

EnsureSpec == EnsureSpecInit /\ [][EnsureNext]_vars

(***************************************************************************)
(* wrap_text run statement by statement: `out` holds its locals.           *)
(***************************************************************************)
\* max_w, also one below zero (margins wider than the page)
LoopWidths == Widths \cup {-1}

Locals(rest, rows, lo, hi_, cut) ==
    [rest |-> rest, rows |-> rows, lo |-> lo, hi |-> hi_, cut |-> cut]

LoopInit ==
    /\ fn = "wrap_text" /\ arg \in [s : Texts(MaxText), max_w : LoopWidths]
    /\ out = Locals("", <<>>, 0, 0, 0)

LoopFrame == UNCHANGED <<arg, pvars, rvars>>

\* `if not s: return [""]`
ReturnEmpty ==
    /\ fn = "wrap_text" /\ arg.s = ""
    /\ out' = [out EXCEPT !.rows = <<"">>]
    /\ fn' = "returned"
    /\ LoopFrame

\* `if text_width(s) <= max_w: return [s]`
ReturnFitting ==
    /\ fn = "wrap_text" /\ arg.s # "" /\ text_width_of(arg.s) <= arg.max_w
    /\ out' = [out EXCEPT !.rows = <<arg.s>>]
    /\ fn' = "returned"
    /\ LoopFrame

\* `out = []; rest = s`
EnterWhile ==
    /\ fn = "wrap_text" /\ arg.s # "" /\ text_width_of(arg.s) > arg.max_w
    /\ out' = [out EXCEPT !.rest = arg.s]
    /\ fn' = "while"
    /\ LoopFrame

\* `while rest:` is false
WhileExit ==
    /\ fn = "while" /\ out.rest = ""
    /\ fn' = "returned"
    /\ UNCHANGED out
    /\ LoopFrame

\* `out.append(rest); break`
WhileBreak ==
    /\ fn = "while" /\ out.rest # "" /\ text_width_of(out.rest) <= arg.max_w
    /\ out' = [out EXCEPT !.rows = Append(@, out.rest)]
    /\ fn' = "returned"
    /\ LoopFrame

\* faulty variant: the search starts from an empty prefix
StartSearch_CutZero ==
    /\ fn = "while" /\ out.rest # "" /\ text_width_of(out.rest) > arg.max_w
    /\ out' = [out EXCEPT !.lo = 1, !.hi = Len(out.rest), !.cut = 0]
    /\ fn' = "bisect"
    /\ LoopFrame

\* `lo, hi = 1, len(rest); cut = 1`
StartSearch ==
    /\ fn = "while" /\ out.rest # "" /\ text_width_of(out.rest) > arg.max_w
    /\ out' = [out EXCEPT !.lo = 1, !.hi = Len(out.rest), !.cut = 1]
    /\ fn' = "bisect"
    /\ LoopFrame

\* one pass of `while lo <= hi`
SearchStep ==
    LET mid == (out.lo + out.hi) \div 2 IN
    /\ fn = "bisect" /\ out.lo <= out.hi
    /\ out' = IF text_width_of(SubSeq(out.rest, 1, mid)) <= arg.max_w
              THEN [out EXCEPT !.cut = mid, !.lo = mid + 1]
              ELSE [out EXCEPT !.hi = mid - 1]
    /\ UNCHANGED fn
    /\ LoopFrame

\* the rest of the pass of `while rest:` once the search has ended
CutRow ==
    LET slice_ == SubSeq(out.rest, 1, out.cut)
        ws == Max(rfind(slice_, " "), rfind(slice_, "\t"))
    IN
    /\ fn = "bisect" /\ out.lo > out.hi
    /\ out' = IF ws >= 0 /\ ws >= (6 * out.cut) \div 10
              THEN [out EXCEPT !.rows = Append(@, rstrip(IF ws <= 0 THEN "" ELSE SubSeq(slice_, 1, ws))),
                               !.rest = From(out.rest, ws + 2)]
              ELSE [out EXCEPT !.rows = Append(@, slice_),
                               !.rest = From(out.rest, out.cut + 1)]
    /\ fn' = "while"
    /\ LoopFrame

LoopSpecInit == ParseIdle /\ RenderIdle /\ LoopInit

LoopNext ==
    \/ ReturnEmpty \/ ReturnFitting \/ EnterWhile \/ WhileExit \/ WhileBreak
    \/ StartSearch \/ SearchStep \/ CutRow

\* the call is synchronous: a statement that can run, runs
LoopSpec == LoopSpecInit /\ [][LoopNext]_vars /\ WF_vars(LoopNext)

Init == ParseInit /\ RenderIdle /\ FunIdle

Next ==
    \/ MetaLine \/ DiffGitLine \/ RenameFromLine \/ RenameToLine
    \/ OldPathLine \/ NewPathLine \/ HunkHeaderLine
    \/ DroppedLine \/ BodyLine \/ BodyLineRaises \/ Finish

Spec == Init /\ [][Next]_vars

RenderNext ==
    \/ BeginFileUnified \/ BeginFileSbs \/ HunkHeaderUnified \/ HunkHeaderSbs
    \/ SuffixUnified \/ LineUnified \/ SkipContextLine \/ PairSbs
    \/ HunkEnd \/ FileEnd

RenderSpecInit == ParseIdle /\ RenderInit /\ FunIdle

RenderSpec == RenderSpecInit /\ [][RenderNext]_vars

(***************************************************************************)
(* The claims on the functions applied on their own.                       *)
(***************************************************************************)
\* the pieces of arg form a line of the hunk-header grammar
InGrammar(p) == p.oc.v # -2 /\ p.nc.v # -2 /\ p.sp2 # ""

\* the header the pieces call for: a count exactly where one was supplied
ExpectedHeader(p) ==
    "@@ -" \o p.os.c \o (IF p.oc.v >= 0 THEN "," \o p.oc.c ELSE "")
    \o " +" \o p.ns.c \o (IF p.nc.v >= 0 THEN "," \o p.nc.c ELSE "")
    \o " @@"

\* C11: for every line of the hunk-header grammar a Hunk is created whose
\* counts are the supplied counts, or 1 where the comma group is absent,
\* whose header is non-empty and rebuilt from the four numbers with a count
\* exactly where the input has one and without the suffix, and whose suffix
\* is the trimmed text after the closing @@ (empty for absent).
C11_HunkHeaderParsing ==
    (fn = "Hunk" /\ InGrammar(arg)) =>
        /\ Len(out) = 1
        /\ out[1].old_start = arg.os.v
        /\ out[1].new_start = arg.ns.v
        /\ out[1].old_count = (IF arg.oc.v >= 0 THEN arg.oc.v ELSE 1)
        /\ out[1].new_count = (IF arg.nc.v >= 0 THEN arg.nc.v ELSE 1)
        /\ out[1].header # ""
        /\ out[1].header = ExpectedHeader(arg)
        /\ out[1].suffix = arg.sfx.t

\* a header with a leading zero, one count absent, the other supplied as 0,
\* and a suffix to trim
C11_Witness ==
    /\ fn = "Hunk" /\ InGrammar(arg) /\ Len(out) = 1
    /\ arg.os.s = "03" /\ arg.oc.v = -1 /\ arg.nc.v = 0 /\ arg.sfx.t = "fn() {"
    /\ out[1].header = "@@ -3 +7,0 @@"

Rows == [k \in 1..Len(out) |-> out[k].row]

IsWhitespace(t) == \A k \in 1..Len(t) : CharAt(t, k) \in Whitespace

\* the rows in order, each followed by what was discarded after it
RECURSIVE Rejoin(_)
Rejoin(ps) == IF ps = <<>> THEN "" ELSE Head(ps).row \o Head(ps).dropped \o Rejoin(Tail(ps))

RECURSIVE Visibles(_)
Visibles(t) ==
    IF Len(t) = 0 THEN ""
    ELSE (IF CharAt(t, 1) \in Whitespace THEN "" ELSE CharAt(t, 1)) \o Visibles(From(t, 2))

RECURSIVE Concat(_)
Concat(rows) == IF rows = <<>> THEN "" ELSE Head(rows) \o Concat(Tail(rows))

\* C12: every row wrap_text returns measures at most max_w, except a row of
\* a single character that is itself wider than max_w.
C12_WrapWidthBound ==
    fn = "wrapped" =>
        \A k \in 1..Len(out) :
            \/ text_width_of(out[k].row) <= arg.max_w
            \/ (Len(out[k].row) = 1 /\ out[k].brk = "hard")

\* a text broken at a whitespace and by the fallback, one row wider than max_w
C12_Witness ==
    /\ fn = "wrapped"
    /\ \E k \in 1..Len(out) : out[k].brk = "ws"
    /\ \E k \in 1..Len(out) : out[k].brk = "hard" /\ text_width_of(out[k].row) > arg.max_w
    /\ \E k \in 1..Len(out) : Len(out[k].row) > 1

\* C13: the rows reconstruct s when the whitespace discarded at a whitespace
\* break is put back between the two rows of that break: only whitespace is
\* discarded, only at whitespace breaks and never after the last row, the
\* other characters are kept in order, and a hard break removes nothing.
C13_WrapLossless ==
    fn = "wrapped" =>
        /\ Rejoin(out) = arg.s
        /\ Visibles(Concat(Rows)) = Visibles(arg.s)
        /\ \A k \in 1..Len(out) :
              /\ IsWhitespace(out[k].dropped)
              /\ out[k].brk # "ws" => out[k].dropped = ""
        /\ out[Len(out)].dropped = ""

\* C13, amended: as above, except that the whitespace at the end of s is
\* discarded after the last row when it is a single whitespace character
\* that is itself wider than max_w.
C13_WrapLossless_Amended ==
    fn = "wrapped" =>
        /\ Rejoin(out) = arg.s
        /\ Visibles(Concat(Rows)) = Visibles(arg.s)
        /\ \A k \in 1..Len(out) :
              /\ IsWhitespace(out[k].dropped)
              /\ out[k].brk # "ws" => out[k].dropped = ""
        /\ \/ out[Len(out)].dropped = ""
           \/ /\ Len(out[Len(out)].dropped) = 1
              /\ text_width_of(out[Len(out)].dropped) > arg.max_w

\* a text with a whitespace break that discards two characters and a hard break
C13_Witness ==
    /\ fn = "wrapped"
    /\ \E k \in 1..Len(out) : out[k].brk = "ws" /\ Len(out[k].dropped) = 2 /\ out[k].row # ""
    /\ \E k \in 1..Len(out) : out[k].brk = "hard"
    /\ out[Len(out)].dropped = ""

\* C14: wrap_text returns at least one row; a text that fits (the empty
\* text too) comes back as the single row [s], and wrapping that row again
\* returns it unchanged.
C14_WrapFitting ==
    fn = "wrapped" =>
        /\ Len(out) >= 1
        /\ text_width_of(arg.s) <= arg.max_w =>
              /\ Rows = <<arg.s>>
              /\ \A k \in 1..Len(out) : wrap_text(out[k].row, arg.max_w) = <<out[k].row>>

\* a text with whitespace in it that fits, and the empty text
C14_Witness ==
    /\ fn = "wrapped" /\ Len(out) = 1
    /\ text_width_of(arg.s) <= arg.max_w
    /\ Len(arg.s) >= 3 /\ ~IsWhitespace(arg.s) /\ Visibles(arg.s) # arg.s
    /\ out[1].row = arg.s

\* the lines a pair consumes, in input order
Consumed(pr) ==
    IF pr[1] = 0 THEN <<pr[2]>>
    ELSE IF pr[2] = 0 \/ pr[2] = pr[1] THEN <<pr[1]>>
    ELSE <<pr[1], pr[2]>>

RECURSIVE ConsumedAll(_)
ConsumedAll(prs) == IF prs = <<>> THEN <<>> ELSE Consumed(Head(prs)) \o ConsumedAll(Tail(prs))

\* a pair has one of the four shapes of the rule
PairShape(lines, pr) ==
    LET l == pr[1]
        r == pr[2]
    IN  \/ /\ l # 0 /\ r = l + 1 /\ lines[l].kind = "del" /\ lines[r].kind = "add"
        \/ /\ l # 0 /\ r = 0 /\ lines[l].kind = "del"
           /\ ~(l + 1 <= Len(lines) /\ lines[l + 1].kind = "add")
        \/ /\ l = 0 /\ r # 0 /\ lines[r].kind = "add"
           /\ ~(r > 1 /\ lines[r - 1].kind = "del")
        \/ /\ l # 0 /\ r = l /\ lines[l].kind = "ctx"

\* C15: the scan gives (del, add) for a deleted line followed at once by an
\* added one, (del, absent) for any other deleted line, (absent, add) for an
\* added line not so consumed, (ctx, ctx) for a context line; every line is
\* consumed exactly once in input order; the PDF and the Word renderer give
\* the same pairs.
C15_SideBySidePairing ==
    fn = "paired" =>
        /\ \A k \in 1..Len(out.pdf) : PairShape(arg, out.pdf[k])
        /\ ConsumedAll(out.pdf) = [k \in 1..Len(arg) |-> k]
        /\ out.word = out.pdf

\* the example [deleted A, added B, context C] -> [(A, B), (C, C)]
C15_Witness ==
    /\ fn = "paired" /\ Len(arg) = 3
    /\ arg[1].kind = "del" /\ arg[2].kind = "add" /\ arg[3].kind = "ctx"
    /\ out.pdf = <<<<1, 2>>, <<3, 3>>>>
    /\ out.word = <<<<1, 2>>, <<3, 3>>>>

\* the indices of the inputs of a kind, in order
RECURSIVE InputsOf(_, _, _)
InputsOf(inputs, kind, k) ==
    IF k > Len(inputs) THEN <<>>
    ELSE (IF inputs[k] = kind THEN <<k>> ELSE <<>>) \o InputsOf(inputs, kind, k + 1)

\* C16: the run ends with a non-zero status only when no input yielded a
\* File; otherwise it ends with status zero, every missing input has been
\* skipped with a warning and the others have been parsed in order, also
\* when the Word output was asked for.
C16_RunOutcome ==
    fn = "exit" =>
        /\ out.status # 0 => InputsOf(arg.inputs, "diff", 1) = <<>>
        /\ InputsOf(arg.inputs, "diff", 1) # <<>> =>
              /\ out.status = 0
              /\ out.all_files = InputsOf(arg.inputs, "diff", 1)
              /\ out.warned = InputsOf(arg.inputs, "missing", 1)

(***************************************************************************)
(* The renderer's claims.                                                  *)
(***************************************************************************)
InHunk == rpc \in {"suffix", "lines"} /\ hi >= 1 /\ hi <= Len(cur.hunks)

\* C1: in unified rendering, every row (suffix row or line row) of a hunk
\* whose measured height is at most page_capacity() is drawn on the page of
\* the hunk's header: no page break falls inside such a hunk.
C1_HunkKeepTogether ==
    (/\ view = "unified" /\ InHunk
     /\ drawn.kind \in {"suffix", "line"}
     /\ measure_hunk_height_unified(cur.hunks[hi], hide_context) <= page_capacity)
    => drawn.page = header_page

\* a hunk of wrapped lines that fits a page, moved whole to the page after
\* its file's badge, with its last row drawn
C1_Witness ==
    /\ view = "unified" /\ InHunk
    /\ cur.hunks[hi] = Fill
    /\ measure_hunk_height_unified(cur.hunks[hi], hide_context) <= page_capacity
    /\ li > Len(cur.hunks[hi].lines) /\ drawn.kind = "line"
    /\ header_page = badge_page + 1 /\ drawn.page = header_page

\* C2: in unified rendering, the badge, every hunk header, suffix row and
\* line row of a file whose measured height is at most page_capacity() are
\* drawn on one page: nothing breaks the page after the badge.
C2_FileKeepTogether ==
    (/\ view = "unified" /\ rpc \in {"suffix", "lines"}
     /\ drawn.kind \in {"header", "suffix", "line"}
     /\ measure_file_height_unified(cur, hide_context) <= page_capacity)
    => drawn.page = badge_page

\* C3: no badge, hunk header, suffix row or line row is drawn past the
\* bottom margin y1, in either view and for lines of any wrapped row count.
C3_NothingPastBottomMargin ==
    drawn.kind # "none" => drawn.bottom <= y1

\* C4: the first row drawn after a hunk header (suffix row or line row) is
\* on the page of the header; stated for the unified view, where the widow
\* check and the keep-together rule both precede the header.
C4_HeaderNeverStranded ==
    (view = "unified" /\ InHunk /\ drawn.kind \in {"suffix", "line"} /\ after_header = 1)
    => drawn.page = header_page

\* the height of the badge, the header of the first hunk and its first rows
\* (the suffix rows and the rows of the first line drawn)
FirstContentHeight ==
    LET h == cur.hunks[1]
        vis == Visible(h, hide_context)
        first == IF vis = {} THEN 0
                 ELSE rows_h_unified(h.lines[CHOOSE k \in vis : \A j \in vis : k <= j].text)
    IN  line_h + gap_badge_to_hunk + line_h + gap_hunk_to_code
        + (IF h.suffix > 0 THEN rows_h_unified(h.suffix) ELSE 0) + first

\* C17: in unified rendering, when the badge, the header of the first hunk
\* and its first rows fit on a fresh page, the header of the first hunk is
\* drawn on the page of the badge, whatever the height of the whole file.
C17_BadgeWithFirstContent ==
    (/\ view = "unified" /\ InHunk /\ hi = 1 /\ drawn.kind = "header"
     /\ FirstContentHeight <= page_capacity)
    => drawn.page = badge_page

\* C21: wrap_text terminates for every string and every max width, also
\* one below the width of every single character; each pass of its outer
\* loop takes at least one character from the remainder, and the binary
\* search ends with a cut between 1 and the length of the remainder.
C21_WrapTermination ==
    /\ <>(fn = "returned")
    /\ [][fn = "bisect" /\ fn' = "while" =>
             /\ 1 <= out.cut /\ out.cut <= Len(out.rest)
             /\ Len(out'.rest) < Len(out.rest)]_vars

\* a max width below every glyph: the call returned one row for each character
C21_Witness ==
    /\ fn = "returned"
    /\ arg.max_w = 2 /\ Len(arg.s) = MaxText
    /\ Len(out.rows) = MaxText /\ out.rest = ""

\* run statement by statement, the loop returns the rows of wrap_text
LoopAgrees == fn = "returned" => out.rows = wrap_text(arg.s, arg.max_w)

\* space_left() of the state ensure_y was called in
SpaceBefore == y1 - (arg.y_base - font_size)

\* C18: ensure_y(h) with space_left() >= h leaves the page, the baseline
\* and the number of pages as they were; with space_left() < h it adds one
\* page, whatever h, keeps the title, and sets the baseline so that
\* space_left() = page_capacity().
C18_EnsureYFrame ==
    fn = "returned" =>
        /\ out.title = arg.title
        /\ SpaceBefore >= arg.rows_h =>
              page = arg.page /\ y_base = arg.y_base /\ out.header = ""
        /\ SpaceBefore < arg.rows_h =>
              /\ page = arg.page + 1
              /\ out.header = arg.title
              /\ y_base = top_base
              /\ space_left(Cursor) = page_capacity

\* a call for more rows than a page holds: one page is added
C18_Witness ==
    /\ fn = "returned"
    /\ arg.rows_h > page_capacity /\ arg.rows_h < force_break
    /\ arg.page = 2 /\ page = 3
    /\ space_left(Cursor) = page_capacity

(***************************************************************************)
(* The parser's claims.  They speak of the input through `consumed`: the   *)
(* lines a hunk header is followed by, and the lines a File comes from.    *)
(***************************************************************************)
Pos(inp, branches) == {i \in 1..Len(inp) : BranchOf[inp[i]] \in branches}

\* the k-th smallest element of a set of numbers
Kth(S, k) == CHOOSE x \in S : Cardinality({y \in S : y <= x}) = k

\* the last index of the run of lines that starts at i and ends before the next
\* line at one of the places `stops`
RunEnd(inp, i, stops) ==
    IF \E j \in stops : j > i
    THEN (CHOOSE j \in stops : j > i /\ \A t \in stops : t > i => j <= t) - 1
    ELSE Len(inp)

\* the hunks of a list of files, in order
RECURSIVE AllHunks(_)
AllHunks(fs) == IF fs = <<>> THEN <<>> ELSE Head(fs).hunks \o AllHunks(Tail(fs))

\* the lines of the input between the k-th hunk header and the next hunk header
\* or `diff --git` line
HunkBody(inp, k) ==
    LET i == Kth(Pos(inp, {"hunk"}), k)
    IN  SubSeq(inp, i + 1, RunEnd(inp, i, Pos(inp, {"hunk", "diff"})))

Count(seq, P(_)) == Cardinality({i \in 1..Len(seq) : P(seq[i])})

FirstCharIn(l, set) == Len(l) > 0 /\ CharAt(l, 1) \in set

HasOld(dl) == dl.old_num # None

HasNew(dl) == dl.new_num # None

OldSide(l) == FirstCharIn(l, {" ", "-"})

NewSide(l) == FirstCharIn(l, {" ", "+"})

DiffChar(l) == FirstCharIn(l, {" ", "-", "+"})

\* the body is the one its header declares
ConsistentBody(body, h) ==
    /\ Count(body, DiffChar) = Len(body)
    /\ Count(body, OldSide) = h.old_count
    /\ Count(body, NewSide) = h.new_count

\* the places where a File of the result starts: every `diff --git` line, and
\* the first line if a path line or a hunk header comes before any of them
FileStarts(inp) ==
    LET D == Pos(inp, {"diff"})
        O == Pos(inp, {"old", "new", "hunk"})
    IN  D \cup (IF \E i \in O : \A d \in D : i < d THEN {1} ELSE {})

\* the lines of the input the k-th File comes from
FileLines(inp, k) ==
    LET i == Kth(FileStarts(inp), k)
    IN  SubSeq(inp, i, RunEnd(inp, i, Pos(inp, {"diff"})))

IsBody(raw) == BranchOf[raw] = "body"

\* the lines of the input a hunk can hold: those of its run that are neither
\* skipped nor taken as rename or path lines
BodyLinesOf(inp, k) ==
    LET b == SelectSeq(HunkBody(inp, k), IsBody) IN [j \in 1..Len(b) |-> Line[b[j]]]

RawsOf(h) == [j \in 1..Len(h.lines) |-> h.lines[j].raw]

\* the number of hunk headers among the lines the k-th File comes from
HeadersIn(inp, k) ==
    LET i == Kth(FileStarts(inp), k)
    IN  Cardinality({j \in Pos(inp, {"hunk"}) : i <= j /\ j <= RunEnd(inp, i, Pos(inp, {"diff"}))})

\* C19: every Line of the result is in the Hunk opened by the nearest hunk
\* header before it, with no `diff --git` line in between: the Lines of the
\* k-th Hunk are the body lines between the k-th header and the next header
\* or `diff --git` line, a File holds the Hunks of the headers among its own
\* lines, and the lines before the first header or between a `diff --git`
\* line and the next header are in no Hunk.
C19_LineAttachment ==
    ppc = "done" /\ result # <<>> =>
        /\ Len(AllHunks(result)) = Cardinality(Pos(consumed, {"hunk"}))
        /\ \A k \in 1..Len(AllHunks(result)) :
              RawsOf(AllHunks(result)[k]) = BodyLinesOf(consumed, k)
        /\ Len(result) = Cardinality(FileStarts(consumed))
        /\ \A k \in 1..Len(result) : Len(result[k].hunks) = HeadersIn(consumed, k)

\* a body line before the first header and one after the `diff --git` line
\* that closes the hunk's File: neither is in the Hunk
C19_Witness ==
    /\ ppc = "done"
    /\ consumed = <<" c", "@@ -1 +1 @@", "diff --git a/o.c b/n.c", "-d">>
    /\ Len(result) = 2
    /\ Len(result[1].hunks) = 1 /\ result[1].hunks[1].lines = <<>>
    /\ result[2].hunks = <<>>


\* the paths the `--- ` (`+++ `) lines of a File's lines supply, in order
Supplied(seg, branch) ==
    LET l == SelectSeq(seg, LAMBDA raw : BranchOf[raw] = branch /\ PathOf[raw] # "")
    IN  [j \in 1..Len(l) |-> PathOf[l[j]]]

\* the path the `diff --git` line that starts the File gives to a side (1 old, 2 new)
GitPath(seg, side) == IF BranchOf[seg[1]] = "diff" THEN GitPathsOf[seg[1]][side] ELSE ""

\* the File's own lines hold a rename line of that candidate, and a `+++ ` line after it
CandidateInFile(seg, branch, table, path) ==
    \E i \in 1..Len(seg) : \E j \in (i + 1)..Len(seg) :
        /\ BranchOf[seg[i]] = branch /\ table[seg[i]] = path
        /\ BranchOf[seg[j]] = "new"

Candidates(table, branch) == {table[raw] : raw \in {r \in LineSet : BranchOf[r] = branch}}

\* C20: a path that a `--- ` / `+++ ` line of the File supplied is the
\* File's path, whatever rename lines there are; a File has a rename
\* candidate as its path only if neither the `diff --git` line nor a
\* `--- ` / `+++ ` line gave that side a path, and the candidate is of a
\* rename line among the File's own lines, after its `diff --git` line.
C20_RenameFallback ==
    ppc = "done" =>
        \A k \in 1..Len(result) :
            LET seg == FileLines(consumed, k)
                so  == Supplied(seg, "old")
                sn  == Supplied(seg, "new")
            IN
            /\ so # <<>> => result[k].old_path = so[Len(so)]
            /\ sn # <<>> => result[k].new_path = sn[Len(sn)]
            /\ result[k].old_path \in Candidates(RenameFromOf, "rename_from") =>
                  /\ so = <<>> /\ GitPath(seg, 1) = ""
                  /\ CandidateInFile(seg, "rename_from", RenameFromOf, result[k].old_path)
            /\ result[k].new_path \in Candidates(RenameToOf, "rename_to") =>
                  /\ sn = <<>> /\ GitPath(seg, 2) = ""
                  /\ CandidateInFile(seg, "rename_to", RenameToOf, result[k].new_path)

\* the fallback taken: a File without paths gets the candidate at its `+++ ` line
C20_Witness ==
    /\ ppc = "done"
    /\ consumed = <<"diff --git q", "rename from r.c", "+++ /dev/null", "@@ -1 +1 @@">>
    /\ Len(result) = 1 /\ result[1].old_path = "r.c" /\ result[1].new_path = ""

\* a candidate recorded before a `diff --git` line is not taken by the File it starts
C20_WitnessReset ==
    /\ ppc = "done"
    /\ consumed = <<"rename from r.c", "diff --git q", "+++ b/new.txt", "@@ -1 +1 @@">>
    /\ Len(result) = 1 /\ result[1].old_path = "" /\ result[1].new_path = "new.txt"

\* lines of the five kinds the loop skips
MetaExamples ==
    { "index 1a..2b", "index ", "new file mode 100644", "new file mode",
      "deleted file mode 100755", "deleted file mode", "Binary files a/x and b/x differ",
      "Binary files ", "\\ No newline at end of file", "\\ No newline at end of file " }

\* the step took a line of the input, and the loop skipped it
SkippedLine ==
    /\ Len(consumed') = Len(consumed) + 1
    /\ BranchOf[consumed'[Len(consumed')]] = "meta"

MetaExamplesSkipped == \A l \in MetaExamples : Branch(l) = "meta"

\* C22: a line starting with `index `, `new file mode`, `deleted file
\* mode`, `Binary files ` or the no-newline marker is skipped, and a skipped
\* line, also inside an active hunk, changes neither the file list, the open
\* File with its paths and hunks, the active Hunk, nor the rename candidates.
C22_MetadataFrame ==
    [][/\ MetaExamplesSkipped
       /\ SkippedLine =>
             /\ UNCHANGED <<files, current, current_hunk, saw_any_hunk>>
             /\ UNCHANGED <<rename_from, rename_to, ppc, result>>]_vars

\* the no-newline marker inside an active hunk: the lines around it are in the Hunk
C22_Witness ==
    /\ ppc = "done"
    /\ consumed = <<"@@ -1 +1 @@", "-d", "\\ No newline at end of file", "+a\tb">>
    /\ Len(result) = 1 /\ Len(result[1].hunks) = 1
    /\ RawsOf(result[1].hunks[1]) = <<"-d", "+a\tb">>

\* the number of Files the lines of the input start
FilesStarted(inp) ==
    LET D == Pos(inp, {"diff"})
        O == Pos(inp, {"old", "new", "hunk"})
    IN  Cardinality(D) + (IF \E i \in O : \A d \in D : i < d THEN 1 ELSE 0)

\* the File's path is that of the last line of that branch, if there is such a
\* line; where that line names none (/dev/null), the path is empty or filled in
\* by the rename fallback or the placeholder
LastPathIs(inp, branch, path, filled) ==
    LET P == Pos(inp, {branch})
        p == PathOf[inp[CHOOSE i \in P : \A j \in P : j <= i]]
    IN  P # {} => IF p # "" THEN path = p ELSE path \in {""} \cup filled

\* the counts of Files and Hunks of a non-empty result
FileAndHunkCounts ==
    ppc = "done" /\ result # <<>> =>
        /\ Len(result) = FilesStarted(consumed)
        /\ Len(AllHunks(result)) = Cardinality(Pos(consumed, {"hunk"}))

\* a `--- ` / `+++ ` line met while a File is open stays in that File
PathLineKeepsFile ==
    (/\ Len(consumed') = Len(consumed) + 1
     /\ BranchOf[consumed'[Len(consumed')]] \in {"old", "new"}
     /\ current # <<>>)
    => /\ files' = files
       /\ Len(current') = 1
       /\ current'[1].hunks = current[1].hunks

\* without `diff --git` lines: one File, with the paths of the last path lines
SingleFile ==
    ppc = "done" /\ result # <<>> /\ Pos(consumed, {"diff"}) = {} =>
        /\ Len(result) = 1
        /\ Len(result[1].hunks) = Cardinality(Pos(consumed, {"hunk"}))
        /\ LastPathIs(consumed, "old", result[1].old_path,
                      Candidates(RenameFromOf, "rename_from") \cup {"(Unnamed OLD)"})
        /\ LastPathIs(consumed, "new", result[1].new_path,
                      Candidates(RenameToOf, "rename_to") \cup {"(Unnamed NEW)"})

\* C23: File boundaries come only from `diff --git` lines.  A non-empty
\* result has one File for each `diff --git` line, and one more if a `--- `,
\* `+++ ` or hunk-header line comes before the first of them; a `--- ` /
\* `+++ ` line met while a File is open starts no File; without `diff --git`
\* lines all hunks are in one File whose paths are those of the last path
\* lines; and there are as many Hunks as hunk-header lines.
C23_FileBoundaries ==
    /\ [](FileAndHunkCounts /\ SingleFile)
    /\ [][PathLineKeepsFile]_vars

\* C5: round-trip line count.  For every hunk of the input whose body has
\* exactly old_count lines beginning with ' ' or '-' and new_count lines
\* beginning with ' ' or '+', the parsed Hunk has old_count lines with an
\* old_num and new_count lines with a new_num.
C5_RoundTripLineCount ==
    ppc = "done" =>
        \A k \in 1..Len(AllHunks(result)) :
            LET h == AllHunks(result)[k] IN
            ConsistentBody(HunkBody(consumed, k), h) =>
                /\ Count(h.lines, HasOld) = h.old_count
                /\ Count(h.lines, HasNew) = h.new_count

\* C6: the result is empty exactly when no line of the input is recognized
\* as a hunk header, also when diff --git / --- / +++ lines were seen.
C6_EmptyIffNoHunkHeader ==
    ppc = "done" => ((result = <<>>) <=> (Pos(consumed, {"hunk"}) = {}))

C6_Witness ==
    /\ ppc = "done"
    /\ result = <<>>
    /\ Pos(consumed, {"diff"}) # {}
    /\ Pos(consumed, {"old", "new"}) # {}

\* C7: parser totality.  For every input and tab width parse_unified_diff
\* returns and never raises.
C7_ParserTotality == ppc # "raised"

KindsBefore(ls, k, kinds) == Cardinality({j \in 1..(k - 1) : ls[j].kind \in kinds})

\* C8: derived line numbers.  The k-th line of a Hunk carries old_start plus
\* the number of context and deleted lines before it (if it is one of them),
\* and new_start plus the number of context and added lines before it (if it
\* is one of them); the declared counts play no part.
C8_DerivedLineNumbers ==
    ppc = "done" =>
        \A x \in 1..Len(AllHunks(result)) :
            LET h == AllHunks(result)[x] IN
            \A k \in 1..Len(h.lines) :
                LET dl == h.lines[k]
                    o == h.old_start + KindsBefore(h.lines, k, {"ctx", "del"})
                    n == h.new_start + KindsBefore(h.lines, k, {"ctx", "add"})
                IN  /\ dl.kind = "ctx" => dl.old_num = o /\ dl.new_num = n
                    /\ dl.kind = "del" => dl.old_num = o /\ dl.new_num = None
                    /\ dl.kind = "add" => dl.old_num = None /\ dl.new_num = n

\* a hunk whose body disagrees with its declared counts, with a deleted line
\* followed by an added one
C8_Witness ==
    /\ ppc = "done"
    /\ \E x \in 1..Len(AllHunks(result)) :
          LET h == AllHunks(result)[x] IN
          /\ Len(h.lines) >= 2
          /\ h.lines[1].kind = "del" /\ h.lines[2].kind = "add"
          /\ h.old_count # Count(h.lines, HasOld)
          /\ h.lines[2].new_num = h.new_start

\* the values of a field of the lines that carry one, in order
RECURSIVE Carried(_, _)
Carried(ls, side) ==
    IF ls = <<>> THEN <<>>
    ELSE (IF Head(ls)[side] # None THEN <<Head(ls)[side]>> ELSE <<>>) \o Carried(Tail(ls), side)

Consecutive(seq, start) == \A i \in 1..Len(seq) : seq[i] = start + i - 1

\* C9: monotonicity.  Within every Hunk the old_num values are the
\* consecutive integers from old_start, the new_num values those from
\* new_start; an added line carries no old_num, a deleted line no new_num.
C9_Monotonicity ==
    ppc = "done" =>
        \A x \in 1..Len(AllHunks(result)) :
            LET h == AllHunks(result)[x] IN
            /\ Consecutive(Carried(h.lines, "old_num"), h.old_start)
            /\ Consecutive(Carried(h.lines, "new_num"), h.new_start)
            /\ \A k \in 1..Len(h.lines) :
                  /\ h.lines[k].kind = "add" => h.lines[k].old_num = None
                  /\ h.lines[k].kind = "del" => h.lines[k].new_num = None

\* a hunk with two lines on each side
C9_Witness ==
    /\ ppc = "done"
    /\ \E x \in 1..Len(AllHunks(result)) :
          LET h == AllHunks(result)[x] IN
          /\ Len(Carried(h.lines, "old_num")) >= 2
          /\ Len(Carried(h.lines, "new_num")) >= 2
          /\ \E k \in 1..Len(h.lines) : h.lines[k].kind # "ctx"

OnlyPathLines(seg, old, new) ==
    /\ \E i, j \in 1..Len(seg) : i < j /\ seg[i] = old /\ seg[j] = new
    /\ \A i \in 1..Len(seg) : BranchOf[seg[i]] = "old" => seg[i] = old
    /\ \A i \in 1..Len(seg) : BranchOf[seg[i]] = "new" => seg[i] = new

\* C10: pure add/delete paths.  A File whose `--- ` line names /dev/null and
\* whose `+++ ` line names b/new.txt has an empty old_path and new_path
\* new.txt, whatever lines came before them for that File; a File whose
\* `+++ ` line names /dev/null has an empty new_path.
C10_PureAddDeletePaths ==
    ppc = "done" =>
        \A k \in 1..Len(result) :
            LET seg == FileLines(consumed, k) IN
            /\ OnlyPathLines(seg, "--- /dev/null", "+++ b/new.txt") =>
                  result[k].old_path = "" /\ result[k].new_path = "new.txt"
            /\ OnlyPathLines(seg, "--- a/o.c", "+++ /dev/null") =>
                  result[k].new_path = ""

====
